---- MODULE Spec2Model ----
(***************************************************************************)
(* RocStr<SIZE>: an immutable, fixed capacity, stack based copy string     *)
(* (src/src/rocstr.rs).  A value is the pair (inner: [u8; SIZE], len).     *)
(* Bytes are the integers 0..255; a Rust index i is the TLA+ index i + 1.  *)
(* Every operation is a pure function of its operands; an operation that  *)
(* panics returns no value.                                                *)
(***************************************************************************)
EXTENDS Integers, Sequences, FiniteSets, TLC

\* ---------------------------------------------------------------- bounds
\* Largest capacity (the const generic SIZE / LEN) the operations are tried at.
MaxCap == 4
\* Longest text argument, in bytes.
MaxTextLen == 3
\* Integers converted are the type's MIN and MAX and those of magnitude <= IntSpan.
IntSpan == 1
\* Longest sequence of operations applied to a default value.
MaxOps == 3
\* replace alone, at capacities large enough for its patterns of four bytes:
\* largest capacity, longest pattern and longest replacement.
MaxHayCap == 6
MaxPatternLen == 4
MaxToLen == 5
\* The integer conversions alone: every integer of magnitude <= MaxSmallInt
\* is converted, with those within IntSpan of a power of ten or of the type's
\* MIN and MAX.
MaxSmallInt == 260

\* ------------------------------------------------------- program constants
\* `[0; SIZE]`: the filler of From<&str> and Default.
FillZero == 0
\* `[b' '; SIZE]`: the filler of replace, reshape, truncate and the integer
\* conversions.
FillSpace == 32
\* `-0x40`: a byte b is a continuation byte iff (b as i8) < -0x40.
ContinuationLimit == -64

\* ------------------------------------------------------------- the inputs
\* The code points the text arguments are made of: 'a' (1 byte), 'é'
\* (2 bytes: C3 A9) and '老' (3 bytes: E8 80 81), as in the tests' strings.
CharA == <<97>>
CharEAcute == <<195, 169>>
CharLao == <<232, 128, 129>>
Chars == {CharA, CharEAcute, CharLao}

RECURSIVE TextsOfLen(_)
\* The &str values of exactly n bytes: a &str is a sequence of whole code points.
TextsOfLen(n) ==
    IF n = 0 THEN {<<>>}
    ELSE UNION {{c \o t : t \in TextsOfLen(n - Len(c))} : c \in {d \in Chars : Len(d) <= n}}

Texts == UNION {TextsOfLen(n) : n \in 0..MaxTextLen}

\* The replacement texts of replace: the empty text and each single code point.
Replacements == {<<>>} \cup Chars

Caps == 0..MaxCap

\* ------------------------------------------------------------ byte helpers
Fill(b, n) == [i \in 1..n |-> b]

\* `b as i8`
AsI8(b) == IF b >= 128 THEN b - 256 ELSE b

\* `(bytes[i] as i8) < -0x40`
IsContinuation(b) == AsI8(b) < ContinuationLimit

\* core::str::from_utf8(bytes).is_ok(): well-formed UTF-8 (lead byte classes,
\* continuation counts, no overlong form, no surrogate, nothing above U+10FFFF).
RECURSIVE Utf8From(_, _)
Utf8From(bytes, i) ==
    IF i > Len(bytes) THEN TRUE
    ELSE LET b == bytes[i]
             n == Len(bytes)
             cont(j) == j <= n /\ bytes[j] >= 128 /\ bytes[j] <= 191
             second(lo, hi) == i + 1 <= n /\ bytes[i + 1] >= lo /\ bytes[i + 1] <= hi
         IN  IF b < 128 THEN Utf8From(bytes, i + 1)
             ELSE IF b >= 194 /\ b <= 223 THEN cont(i + 1) /\ Utf8From(bytes, i + 2)
             ELSE IF b = 224 THEN second(160, 191) /\ cont(i + 2) /\ Utf8From(bytes, i + 3)
             ELSE IF b = 237 THEN second(128, 159) /\ cont(i + 2) /\ Utf8From(bytes, i + 3)
             ELSE IF b >= 225 /\ b <= 239 THEN cont(i + 1) /\ cont(i + 2) /\ Utf8From(bytes, i + 3)
             ELSE IF b = 240 THEN second(144, 191) /\ cont(i + 2) /\ cont(i + 3) /\ Utf8From(bytes, i + 4)
             ELSE IF b = 244 THEN second(128, 143) /\ cont(i + 2) /\ cont(i + 3) /\ Utf8From(bytes, i + 4)
             ELSE IF b >= 241 /\ b <= 243 THEN cont(i + 1) /\ cont(i + 2) /\ cont(i + 3) /\ Utf8From(bytes, i + 4)
             ELSE FALSE

IsValidUtf8(bytes) == Utf8From(bytes, 1)

\* ------------------------------------------------------------- the value
\* struct RocStr<const SIZE: usize> { inner: [u8; SIZE], len: usize }
RocStr(size, inner, len) == [cap |-> size, inner |-> inner, len |-> len]

\* `&value.inner[..value.len]` (as_bytes, From<&RocStr> for &[u8])
AsBytes(v) == SubSeq(v.inner, 1, v.len)

\* Default::default(): inner [0; SIZE], len 0
Default(size) == RocStr(size, Fill(FillZero, size), 0)


\* `dst[from..to].copy_from_slice(src)`: the destination range must lie in dst
\* and have src's length, else the call panics.
CopyFromSlice(dst, from, to, src) ==
    IF from > to \/ to > Len(dst) \/ to - from # Len(src)
    THEN [panic |-> TRUE, inner |-> dst]
    ELSE [panic |-> FALSE,
          inner |-> [i \in 1..Len(dst) |->
                        IF i > from /\ i <= to THEN src[i - from] ELSE dst[i]]]

\* ------------------------------------------------- the UTF-8 boundary scanner
RECURSIVE WalkBack(_, _)
\* `while (bytes[boundary] as i8) < -0x40 { boundary -= 1; }` from a Rust index
\* `boundary`; the result -1 stands for the panic of `len - 1` or `boundary -= 1`
\* below zero (overflow check, or index out of bounds once wrapped).
WalkBack(bytes, boundary) ==
    IF boundary < 0 THEN -1
    ELSE IF IsContinuation(bytes[boundary + 1]) THEN WalkBack(bytes, boundary - 1)
    ELSE boundary

\* Mutant of Boundary: the cut is made at `len` whatever byte is there.
BoundaryRawCut(bytes, len) == IF len < Len(bytes) THEN len ELSE Len(bytes)

\* Mutant of Boundary: one step back from a continuation byte, without the loop.
BoundaryOneStepBack(bytes, len) ==
    IF len < Len(bytes)
    THEN IF ~IsContinuation(bytes[len + 1]) THEN len ELSE len - 1
    ELSE Len(bytes)

\* Mutant of Boundary: bytes that fit exactly are cut before their last code
\* point (`len <= bytes_len`, the byte at `len` taken for a continuation byte).
BoundaryExactFitDropsLast(bytes, len) ==
    IF len < Len(bytes)
    THEN IF ~IsContinuation(bytes[len + 1]) THEN len ELSE WalkBack(bytes, len - 1)
    ELSE IF len = Len(bytes) /\ len > 0 THEN WalkBack(bytes, len - 1)
    ELSE Len(bytes)

\* The `boundary` of extract_utf8_within; -1 when the call panics.
Boundary(bytes, len) ==
    IF len < Len(bytes)
    THEN IF ~IsContinuation(bytes[len + 1]) THEN len ELSE WalkBack(bytes, len - 1)
    ELSE Len(bytes)

\* fn extract_utf8_within(bytes: &[u8], len: usize) -> &[u8]
ExtractUtf8Within(bytes, len) ==
    LET boundary == Boundary(bytes, len)
    IN  IF boundary < 0 THEN [panic |-> TRUE, slice |-> <<>>]
        ELSE [panic |-> FALSE, slice |-> SubSeq(bytes, 1, boundary)]

\* The scanner call an operation made, kept with its outcome.
NoScan == [called |-> FALSE, bytes |-> <<>>, limit |-> 0, panic |-> FALSE, slice |-> <<>>]
ScanOf(bytes, limit, ex) ==
    [called |-> TRUE, bytes |-> bytes, limit |-> limit, panic |-> ex.panic, slice |-> ex.slice]

\* The outcome of a call: the value returned, or a panic (no value).
Returned(v, scan) == [panic |-> FALSE, val |-> v, scan |-> scan]
Panicked(scan) == [panic |-> TRUE, val |-> Default(0), scan |-> scan]

\* ------------------------------------------------------------ construction
\* Mutant of FromStr: the text is cut at SIZE bytes without the scanner.
FromStrRawCut(size, value) ==
    LET len == IF size < Len(value) THEN size ELSE Len(value)
        cp == CopyFromSlice(Fill(FillZero, size), 0, len, SubSeq(value, 1, len))
    IN  Returned(RocStr(size, cp.inner, len), NoScan)

\* Mutant of FromStr: the last code point of a text that fits exactly is dropped
\* (`len <= bytes_len` in place of `len < bytes_len`).
FromStrDropsLast(size, value) ==
    LET ex == ExtractUtf8Within(value, IF size <= Len(value) /\ size > 0 THEN size - 1 ELSE size)
        len == Len(ex.slice)
        cp == CopyFromSlice(Fill(FillZero, size), 0, len, ex.slice)
        scan == ScanOf(value, size, ex)
    IN  IF ex.panic \/ cp.panic THEN Panicked(scan)
        ELSE Returned(RocStr(size, cp.inner, len), scan)

\* impl From<&str> for RocStr<SIZE>
FromStr(size, value) ==
    LET ex == ExtractUtf8Within(value, size)
        len == Len(ex.slice)
        cp == CopyFromSlice(Fill(FillZero, size), 0, len, ex.slice)
        scan == ScanOf(value, size, ex)
    IN  IF ex.panic \/ cp.panic THEN Panicked(scan)
        ELSE Returned(RocStr(size, cp.inner, len), scan)

\* impl From<&RocStr<SIZE>> for &str (as_str): from_utf8 of the live bytes, and
\* unreachable!() when they are not UTF-8.
AsStr(v) ==
    IF IsValidUtf8(AsBytes(v)) THEN [panic |-> FALSE, str |-> AsBytes(v)]
    ELSE [panic |-> TRUE, str |-> <<>>]

\* ---------------------------------------------- reshape, truncate, concatenate
\* Mutant of Reshape: the content is cut at LEN bytes without the scanner.
ReshapeRawCut(self, newcap) ==
    LET bytes == SubSeq(self.inner, 1, self.len)
        len == IF newcap < self.len THEN newcap ELSE self.len
        cp == CopyFromSlice(Fill(FillSpace, newcap), 0, len, SubSeq(bytes, 1, len))
    IN  Returned(RocStr(newcap, cp.inner, len), NoScan)

\* pub fn reshape<const LEN: usize>(&self) -> RocStr<LEN>
Reshape(self, newcap) ==
    LET bytes == SubSeq(self.inner, 1, self.len)
        ex == ExtractUtf8Within(bytes, newcap)
        len == Len(ex.slice)
        cp == CopyFromSlice(Fill(FillSpace, newcap), 0, len, ex.slice)
        scan == ScanOf(bytes, newcap, ex)
    IN  IF ex.panic \/ cp.panic THEN Panicked(scan)
        ELSE Returned(RocStr(newcap, cp.inner, len), scan)

\* Mutant of Truncate: the scanner is given the whole array `&self.inner`
\* in place of the live bytes.
TruncateScansWholeArray(self, n) ==
    LET ex == ExtractUtf8Within(self.inner, n)
        len == Len(ex.slice)
        cp == CopyFromSlice(Fill(FillSpace, self.cap), 0, len, ex.slice)
        scan == ScanOf(self.inner, n, ex)
    IN  IF ex.panic \/ cp.panic THEN Panicked(scan)
        ELSE Returned(RocStr(self.cap, cp.inner, len), scan)

\* pub fn truncate(&self, len: usize) -> Self
Truncate(self, n) ==
    LET ex == ExtractUtf8Within(AsBytes(self), n)
        len == Len(ex.slice)
        cp == CopyFromSlice(Fill(FillSpace, self.cap), 0, len, ex.slice)
        scan == ScanOf(AsBytes(self), n, ex)
    IN  IF ex.panic \/ cp.panic THEN Panicked(scan)
        ELSE Returned(RocStr(self.cap, cp.inner, len), scan)

\* The `len` of the overflow branch of both add: `(slice, SIZE)`.
AddOverflowLen(size, selflen, slice) == size

\* impl Add<T: AsRef<str>> for RocStr<SIZE>
AddStr(self, rhs) ==
    LET size == self.cap
        over == self.len + Len(rhs) > size
        ex == IF over THEN ExtractUtf8Within(rhs, size - self.len)
              ELSE [panic |-> FALSE, slice |-> rhs]
        len == IF over THEN AddOverflowLen(size, self.len, ex.slice) ELSE self.len + Len(rhs)
        cp == CopyFromSlice(self.inner, self.len, len, ex.slice)
        scan == IF over THEN ScanOf(rhs, size - self.len, ex) ELSE NoScan
    IN  IF ex.panic \/ cp.panic THEN Panicked(scan)
        ELSE Returned(RocStr(size, cp.inner, len), scan)

\* Mutant of AddRoc: both branches scan the whole array rhs.inner, up to the
\* room left.
AddRocScansWholeArray(self, rhs) ==
    LET size == self.cap
        ex == ExtractUtf8Within(rhs.inner, size - self.len)
        len == self.len + Len(ex.slice)
        cp == CopyFromSlice(self.inner, self.len, len, ex.slice)
        scan == ScanOf(rhs.inner, size - self.len, ex)
    IN  IF ex.panic \/ cp.panic THEN Panicked(scan)
        ELSE Returned(RocStr(size, cp.inner, len), scan)

\* impl Add<RocStr<LEN>> for RocStr<SIZE>: the overflow branch scans the whole
\* array rhs.inner, the other branch takes `&rhs.inner[..rhs.len]`.
AddRoc(self, rhs) ==
    LET size == self.cap
        over == self.len + rhs.len > size
        ex == IF over THEN ExtractUtf8Within(rhs.inner, size - self.len)
              ELSE [panic |-> FALSE, slice |-> SubSeq(rhs.inner, 1, rhs.len)]
        len == IF over THEN AddOverflowLen(size, self.len, ex.slice) ELSE self.len + rhs.len
        cp == CopyFromSlice(self.inner, self.len, len, ex.slice)
        scan == IF over THEN ScanOf(rhs.inner, size - self.len, ex) ELSE NoScan
    IN  IF ex.panic \/ cp.panic THEN Panicked(scan)
        ELSE Returned(RocStr(size, cp.inner, len), scan)

\* ------------------------------------------------------------------ replace
\* `dst[at..at + src.len()].copy_from_slice(src)` where the range is known to fit.
Overwrite(dst, at, src) ==
    [i \in 1..Len(dst) |-> IF i > at /\ i <= at + Len(src) THEN src[i - at] ELSE dst[i]]

\* Mutant of ReplaceOverflowLen: the whole replacement is counted.
ReplaceOverflowLenUnclamped(size, end) == end

\* `len = SIZE;` of the branch where the replacement does not fit.
ReplaceOverflowLen(size, end) == size

RECURSIVE ReplaceFrames(_, _, _, _, _)
\* The `for (i, frame) in frames` loop of replace, from frame i on, with the
\* loop's variables st = [len, skip, inner]; the frames are the windows of
\* pattern's length over the live bytes, so frame i exists iff i + |pattern| <= self.len.
ReplaceFrames(self, pattern, to, i, st) ==
    LET size == self.cap
        m == Len(pattern)
    IN  IF i + m > self.len THEN st
        ELSE IF st.skip # 0
             THEN ReplaceFrames(self, pattern, to, i + 1, [st EXCEPT !.skip = @ - 1])
        ELSE IF SubSeq(self.inner, i + 1, i + m) = pattern
             THEN LET end == st.len + Len(to)
                  IN  IF end <= size
                      THEN ReplaceFrames(self, pattern, to, i + 1,
                               [len |-> end, skip |-> m - 1,
                                inner |-> Overwrite(st.inner, st.len, to)])
                      ELSE [len |-> ReplaceOverflowLen(size, end), skip |-> st.skip,
                            inner |-> Overwrite(st.inner, st.len, SubSeq(to, 1, size - st.len))]
        ELSE IF st.len < size
             THEN ReplaceFrames(self, pattern, to, i + 1,
                      [len |-> st.len + 1, skip |-> st.skip,
                       inner |-> [st.inner EXCEPT ![st.len + 1] = self.inner[i + 1]]])
        ELSE st

\* The start of `remaining_bytes`, `self.len - from.len() + 1` in usize; -1 when
\* evaluating it, or slicing `self.inner[start..self.len]` with it, panics.  With
\* overflow checks (`checked`) the subtraction panics when from is longer than
\* the live bytes; without them it wraps, the sum is 0 when from.len() is
\* self.len + 1, and otherwise an index far above self.len.
TailStart(selflen, fromlen, checked) ==
    IF selflen >= fromlen THEN selflen - fromlen + 1
    ELSE IF checked THEN -1
    ELSE IF selflen - fromlen + 1 = 0 THEN 0
    ELSE -1

\* Mutant of ReplaceEmptyPattern: an empty pattern gives the empty value.
ReplaceEmptyPatternCleared(self) == RocStr(self.cap, Fill(FillSpace, self.cap), 0)

\* `*self`: what replace returns for an empty pattern.
ReplaceEmptyPattern(self) == self

\* pub fn replace(&self, from: &str, to: &str) -> Self
Replace(self, from, to, checked) ==
    IF Len(from) = 0 THEN Returned(ReplaceEmptyPattern(self), NoScan)
    ELSE LET size == self.cap
             st == ReplaceFrames(self, from, to, 0,
                       [len |-> 0, skip |-> 0, inner |-> Fill(FillSpace, size)])
         IN  IF st.len < size /\ st.skip = 0
             THEN LET remaining_slots == size - st.len
                      start == TailStart(self.len, Len(from), checked)
                      all == SubSeq(self.inner, start + 1, self.len)
                      remaining_bytes == IF remaining_slots > Len(all) THEN all
                                         ELSE SubSeq(all, 1, remaining_slots)
                  IN  IF start < 0 THEN Panicked(NoScan)
                      ELSE Returned(RocStr(size, Overwrite(st.inner, st.len, remaining_bytes),
                                           st.len + Len(remaining_bytes)), NoScan)
             ELSE Returned(RocStr(size, st.inner, st.len), NoScan)

\* ---------------------------------------------- equality, hash, views, display
\* impl PartialEq<str> for RocStr<SIZE>, impl PartialEq<T: AsRef<str>> for
\* RocStr<SIZE>: `self.len == other.len() && &self.inner[..self.len] == other.as_bytes()`
EqStr(self, other) == self.len = Len(other) /\ SubSeq(self.inner, 1, self.len) = other

\* impl PartialEq<RocStr<SIZE>> for &str:
\* `self.len() == other.len && self.as_bytes() == &other.inner[..other.len]`
StrEq(self, other) == Len(self) = other.len /\ self = SubSeq(other.inner, 1, other.len)

\* Mutant of EqRoc: only values of one capacity are equal.
EqRocSameCapacity(self, other) ==
    /\ self.cap = other.cap
    /\ self.len = other.len
    /\ SubSeq(self.inner, 1, self.len) = SubSeq(other.inner, 1, other.len)

\* impl PartialEq<RocStr<SIZE>> for RocStr<LEN>:
\* `self.len() == other.len && self.inner[..self.len] == other.inner[..other.len]`
EqRoc(self, other) ==
    /\ self.len = other.len
    /\ SubSeq(self.inner, 1, self.len) = SubSeq(other.inner, 1, other.len)

\* A hasher is the stream of the bytes written to it.
HasherWrite(hasher, bytes) == hasher \o bytes
HasherWriteU8(hasher, byte) == Append(hasher, byte)

\* Mutant of Hash: the whole array is written.
HashWholeArray(self) == HasherWriteU8(HasherWrite(<<>>, self.inner), 255)

\* Mutant of Hash: nothing is written after the live bytes.
HashNoTerminator(self) == HasherWrite(<<>>, SubSeq(self.inner, 1, self.len))

\* impl Hash for RocStr<SIZE>, on a fresh hasher:
\* `hasher.write(&self.inner[..self.len]); hasher.write_u8(0xff);`
Hash(self) == HasherWriteU8(HasherWrite(<<>>, SubSeq(self.inner, 1, self.len)), 255)

\* impl Display for RocStr<SIZE>: `write!(f, "{}", Into::<&str>::into(self))`
Display(self) == AsStr(self)

\* pub fn starts_with(&self, pattern: &str) -> bool
StartsWith(self, pattern) ==
    Len(pattern) <= self.len /\ SubSeq(AsBytes(self), 1, Len(pattern)) = pattern

\* ------------------------------------------------------------- the error value
\* const DEFAULT_MESSAGE: &str =
\*     "CAPACITY ERROR : this RocStr cannot contains this string.";
DEFAULT_MESSAGE ==
    <<67, 65, 80, 65, 67, 73, 84, 89, 32, 69, 82, 82, 79, 82, 32, 58, 32,
      116, 104, 105, 115, 32, 82, 111, 99, 83, 116, 114, 32,
      99, 97, 110, 110, 111, 116, 32, 99, 111, 110, 116, 97, 105, 110, 115, 32,
      116, 104, 105, 115, 32, 115, 116, 114, 105, 110, 103, 46>>

\* `impl Default for InsufficientCapacity<57>`
DefaultErrorCap == 57

\* pub struct InsufficientCapacity<const SIZE: usize>(RocStr<SIZE>): the error
\* e holds its message as e[1].
InsufficientCapacity(value) == <<value>>

\* impl From<RocStr<SIZE>> for InsufficientCapacity<SIZE>: `Self(value)`
ErrFromRoc(value) == [panic |-> FALSE, err |-> InsufficientCapacity(value)]

\* Mutant of ErrFromStr: the message is kept only when the whole of it fits.
ErrFromStrWholeOrNothing(size, value) ==
    IF Len(value) <= size
    THEN [panic |-> FALSE, err |-> InsufficientCapacity(FromStr(size, value).val)]
    ELSE [panic |-> FALSE, err |-> InsufficientCapacity(Default(size))]

\* impl From<T: AsRef<str>> for InsufficientCapacity<SIZE>:
\* `Self(RocStr::from(value.as_ref()))`
ErrFromStr(size, value) ==
    LET res == FromStr(size, value)
    IN  [panic |-> res.panic, err |-> InsufficientCapacity(res.val)]

\* impl Default for InsufficientCapacity<57>: `DEFAULT_MESSAGE.into()`
ErrDefault == ErrFromStr(DefaultErrorCap, DEFAULT_MESSAGE)

\* impl Display for InsufficientCapacity<SIZE>: `write!(f, "{}", self.0)`
ErrDisplay(e) == Display(e[1])

\* ------------------------------------------------------ integer arithmetic
\* An integer of up to 128 bits is a sign and a magnitude; the magnitude is a
\* little-endian sequence of LimbCount limbs in base LimbBase (2^16), so that
\* 8 limbs hold a u128.  Division, multiplication and subtraction are the
\* schoolbook algorithms on the limbs.
LimbBase == 65536
LimbCount == 8
Limbs == 1..LimbCount

\* The magnitude of a natural number below 2^31.
MagOfNat(n) ==
    SubSeq([i \in Limbs |-> IF i = 1 THEN n % LimbBase
                            ELSE IF i = 2 THEN n \div LimbBase ELSE 0], 1, LimbCount)

MagIsZero(m) == \A i \in Limbs : m[i] = 0

\* a < b
MagLess(a, b) == \E i \in Limbs : a[i] < b[i] /\ \A j \in (i + 1)..LimbCount : a[j] = b[j]

RECURSIVE MagDivFrom(_, _, _, _)
\* The limbs 1..i of m / d, where rem is the remainder left by the limbs above i.
MagDivFrom(m, d, i, rem) ==
    IF i = 0 THEN <<>>
    ELSE LET t == rem * LimbBase + m[i]
         IN  Append(MagDivFrom(m, d, i - 1, t % d), t \div d)

\* m / d, for a small divisor d
MagDiv(m, d) == MagDivFrom(m, d, LimbCount, 0)

RECURSIVE MagMulFrom(_, _, _, _)
\* The limbs i..LimbCount of m * d, where carry is the carry into limb i.
MagMulFrom(m, d, i, carry) ==
    IF i > LimbCount THEN <<>>
    ELSE LET t == m[i] * d + carry
         IN  <<t % LimbBase>> \o MagMulFrom(m, d, i + 1, t \div LimbBase)

\* m * d (mod 2^128), for a small factor d
MagMul(m, d) == MagMulFrom(m, d, 1, 0)

RECURSIVE MulCarry(_, _, _)
\* The carry into limb i of m * d; the carry into limb LimbCount + 1 is the
\* overflow of 128 bits.
MulCarry(m, d, i) ==
    IF i <= 1 THEN 0 ELSE (m[i - 1] * d + MulCarry(m, d, i - 1)) \div LimbBase

RECURSIVE MagAddFrom(_, _, _, _)
MagAddFrom(a, b, i, carry) ==
    IF i > LimbCount THEN <<>>
    ELSE LET t == a[i] + b[i] + carry
         IN  <<t % LimbBase>> \o MagAddFrom(a, b, i + 1, t \div LimbBase)

\* a + b (mod 2^128)
MagAdd(a, b) == MagAddFrom(a, b, 1, 0)

RECURSIVE AddCarry(_, _, _)
\* The carry into limb i of a + b.
AddCarry(a, b, i) ==
    IF i <= 1 THEN 0 ELSE (a[i - 1] + b[i - 1] + AddCarry(a, b, i - 1)) \div LimbBase

RECURSIVE MagSubFrom(_, _, _, _)
MagSubFrom(a, b, i, borrow) ==
    IF i > LimbCount THEN <<>>
    ELSE LET t == a[i] - b[i] - borrow
         IN  <<t % LimbBase>> \o MagSubFrom(a, b, i + 1, IF t < 0 THEN 1 ELSE 0)

\* a - b, for a >= b
MagSub(a, b) == MagSubFrom(a, b, 1, 0)

\* 2^k and 2^k - 1, for k in 0..128 (2^k for k < 128)
MagPow2(k) ==
    SubSeq([i \in Limbs |-> IF i = (k \div 16) + 1 THEN 2 ^ (k % 16) ELSE 0], 1, LimbCount)
MagOnes(k) ==
    SubSeq([i \in Limbs |-> IF 16 * i <= k THEN LimbBase - 1
                            ELSE IF 16 * (i - 1) < k THEN 2 ^ (k - 16 * (i - 1)) - 1
                            ELSE 0], 1, LimbCount)

\* The integer of sign neg and magnitude mag; zero has no sign.
IntOfMag(neg, mag) == [neg |-> neg /\ ~MagIsZero(mag), mag |-> mag]
IntOf(n) == IntOfMag(n < 0, MagOfNat(IF n < 0 THEN -n ELSE n))

\* Zero::zero(), Ten::ten()
Zero == IntOf(0)
Ten == IntOf(10)

\* `a < T::zero()`, `a > T::zero()`
IsNegative(a) == a.neg
IsPositive(a) == ~a.neg /\ ~MagIsZero(a.mag)

\* `value / T::ten()`: the quotient truncated toward zero
IntDiv(a, b) == IntOfMag(a.neg # b.neg, MagDiv(a.mag, b.mag[1]))

\* `next * T::ten()`
IntMul(a, b) == IntOfMag(a.neg # b.neg, MagMul(a.mag, b.mag[1]))

\* `value - mask`
IntSub(a, b) ==
    IF a.neg # b.neg THEN IntOfMag(a.neg, MagAdd(a.mag, b.mag))
    ELSE IF MagLess(a.mag, b.mag) THEN IntOfMag(~a.neg, MagSub(b.mag, a.mag))
    ELSE IntOfMag(a.neg, MagSub(a.mag, b.mag))

\* AsDigit::as_digit, `*self as u8`: the low 8 bits of the two's complement
AsDigit(a) ==
    IF a.neg THEN (256 - (a.mag[1] % 256)) % 256 ELSE a.mag[1] % 256

\* ------------------------------------------------------ integer conversion
\* The integer types with an `impl From<ty> for RocStr<cap>`; usize and isize
\* have the width ptr of the target's pointers.
AllIntTypes ==
    {"u8", "u16", "u32", "u64", "u128", "usize", "i8", "i16", "i32", "i64", "isize"}
\* The integer types converted within sequences of operations.
IntTypes == {"u8", "i8"}
\* target_pointer_width of the build
PointerWidths == {32, 64}

TypeSigned(ty) == ty \in {"i8", "i16", "i32", "i64", "isize"}
TypeBits(ty, ptr) ==
    CASE ty \in {"u8", "i8"} -> 8
      [] ty \in {"u16", "i16"} -> 16
      [] ty \in {"u32", "i32"} -> 32
      [] ty \in {"u64", "i64"} -> 64
      [] ty = "u128" -> 128
      [] ty \in {"usize", "isize"} -> ptr
\* T::MIN, T::MAX
TypeMin(ty, ptr) ==
    IF TypeSigned(ty) THEN IntOfMag(TRUE, MagPow2(TypeBits(ty, ptr) - 1)) ELSE Zero
TypeMax(ty, ptr) ==
    IntOfMag(FALSE, MagOnes(IF TypeSigned(ty) THEN TypeBits(ty, ptr) - 1
                            ELSE TypeBits(ty, ptr)))
\* v is a value of the type
InType(ty, ptr, v) ==
    IF v.neg THEN TypeSigned(ty) /\ ~MagLess(TypeMin(ty, ptr).mag, v.mag)
    ELSE ~MagLess(TypeMax(ty, ptr).mag, v.mag)

\* Mutant of TypeCap: the capacities of the signed types leave no room for the
\* sign.
TypeCapWithoutSign(ty) ==
    CASE ty = "u8" -> 3 [] ty = "u16" -> 5 [] ty = "u32" -> 10 [] ty = "u64" -> 20
      [] ty = "u128" -> 39 [] ty = "usize" -> 20
      [] ty = "i8" -> 3 [] ty = "i16" -> 5 [] ty = "i32" -> 10 [] ty = "i64" -> 19
      [] ty = "isize" -> 19

\* The SIZE of `impl From<ty> for RocStr<SIZE>`
TypeCap(ty) ==
    CASE ty = "u8" -> 3 [] ty = "u16" -> 5 [] ty = "u32" -> 10 [] ty = "u64" -> 20
      [] ty = "u128" -> 39 [] ty = "usize" -> 20
      [] ty = "i8" -> 4 [] ty = "i16" -> 6 [] ty = "i32" -> 11 [] ty = "i64" -> 20
      [] ty = "isize" -> 20

\* ROCSTR_MIN_I8, _I16, _I32, _I64, _ISIZE: inner *b"-128", *b"-32768",
\* *b"-2147483648", *b"-9223372036854775808" (twice), len the capacity.
RocStrMin(ty) ==
    CASE ty = "i8" -> RocStr(4, <<45, 49, 50, 56>>, 4)
      [] ty = "i16" -> RocStr(6, <<45, 51, 50, 55, 54, 56>>, 6)
      [] ty = "i32" -> RocStr(11, <<45, 50, 49, 52, 55, 52, 56, 51, 54, 52, 56>>, 11)
      [] ty = "i64" ->
           RocStr(20, <<45, 57, 50, 50, 51, 51, 55, 50, 48, 51, 54, 56, 53, 52, 55, 55,
                        53, 56, 48, 56>>, 20)
      [] ty = "isize" ->
           RocStr(20, <<45, 57, 50, 50, 51, 51, 55, 50, 48, 51, 54, 56, 53, 52, 55, 55,
                        53, 56, 48, 56>>, 20)

\* The values converted within sequences of operations: the type's MIN and
\* MAX and the integers of magnitude at most IntSpan.
IntInputs(ty, ptr) ==
    {v \in {TypeMin(ty, ptr), TypeMax(ty, ptr)} \cup {IntOf(n) : n \in -IntSpan..IntSpan} :
        InType(ty, ptr, v)}

\* Zero::zero_as_rocstr: `inner[0] = b'0'` over a space filled array, len 1.
ZeroAsRocStr(size) ==
    IF size = 0 THEN Panicked(NoScan)
    ELSE Returned(RocStr(size, [Fill(FillSpace, size) EXCEPT ![1] = 48], 1), NoScan)

\* fn next_char(value) -> (next, char); a digit outside 0..9 reaches
\* unreachable!().
NextChar(value) ==
    LET next == IntDiv(value, Ten)
        mask == IntMul(next, Ten)
        digit == AsDigit(IntSub(value, mask))
    IN  [next |-> next, char |-> 48 + digit, panic |-> digit > 9]

RECURSIVE DigitLoop(_, _, _, _)
\* `while value > T::zero() { len += 1; ...; buffer[SIZE - len] = char; value = next; }`
\* The write at `SIZE - len` panics once len is above SIZE.
DigitLoop(size, value, len, buffer) ==
    IF ~IsPositive(value) THEN [panic |-> FALSE, len |-> len, buffer |-> buffer]
    ELSE LET nc == NextChar(value)
         IN  IF nc.panic \/ len + 1 > size
             THEN [panic |-> TRUE, len |-> len, buffer |-> buffer]
             ELSE DigitLoop(size, nc.next, len + 1, [buffer EXCEPT ![size - len] = nc.char])

\* The tail of from_signed and from_unsigned:
\* `inner[..len].copy_from_slice(&buffer[SIZE - len..])`.
FromBuffer(size, len, buffer) ==
    LET cp == CopyFromSlice(Fill(FillSpace, size), 0, len, SubSeq(buffer, size - len + 1, size))
    IN  IF cp.panic THEN Panicked(NoScan) ELSE Returned(RocStr(size, cp.inner, len), NoScan)

\* fn from_unsigned<const SIZE: usize, T>(value: T) -> RocStr<SIZE>
FromUnsigned(size, value) ==
    IF value = Zero THEN ZeroAsRocStr(size)
    ELSE LET d == DigitLoop(size, value, 0, Fill(FillSpace, size))
         IN  IF d.panic THEN Panicked(NoScan) ELSE FromBuffer(size, d.len, d.buffer)

\* `-value` in the type ty: of the type's MIN it panics with overflow checks
\* and is MIN again without them.
Negate(ty, ptr, value, checked) ==
    IF value = TypeMin(ty, ptr) THEN [panic |-> checked, value |-> value]
    ELSE [panic |-> FALSE, value |-> IntOfMag(~value.neg, value.mag)]

\* fn from_signed<const SIZE: usize, T>(value: T) -> RocStr<SIZE>
FromSigned(size, ty, ptr, value, checked) ==
    IF value = Zero THEN ZeroAsRocStr(size)
    ELSE LET negative == IsNegative(value)
             abs == IF negative THEN Negate(ty, ptr, value, checked)
                    ELSE [panic |-> FALSE, value |-> value]
             d == DigitLoop(size, abs.value, 0, Fill(FillSpace, size))
             signed == IF negative /\ d.len + 1 <= size
                       THEN [d EXCEPT !.len = @ + 1, !.buffer[size - d.len] = 45]
                       ELSE d
         IN  IF abs.panic \/ d.panic \/ (negative /\ d.len + 1 > size) THEN Panicked(NoScan)
             ELSE FromBuffer(size, signed.len, signed.buffer)

\* Mutant of FromInt: the type's MIN goes through from_signed as well.
FromIntNoMinConstant(ty, ptr, value, checked) ==
    IF TypeSigned(ty) THEN FromSigned(TypeCap(ty), ty, ptr, value, checked)
    ELSE FromUnsigned(TypeCap(ty), value)

\* impl From<u8> for RocStr<3>, From<i8> for RocStr<4>, ...
FromInt(ty, ptr, value, checked) ==
    IF TypeSigned(ty)
    THEN IF value = TypeMin(ty, ptr) THEN Returned(RocStrMin(ty), NoScan)
         ELSE FromSigned(TypeCap(ty), ty, ptr, value, checked)
    ELSE FromUnsigned(TypeCap(ty), value)

\* ---------------------------------------------------------- the state machine
\* cur:  the value the last call returned (the one before it when it panicked);
\* call: the last call: its name, receiver (self), operands, and outcome;
\* ops:  the number of calls made so far.
VARIABLES cur, call, ops

vars == <<cur, call, ops>>

NoValue == Default(0)

\* What a call that returns no bounded string gives back: nothing, unless the
\* outcome says otherwise.
NoOut == <<>>

\* The outcome of an observation of a value: what it gives back, or a panic.
Observed(panic, out) == [panic |-> panic, val |-> NoValue, scan |-> NoScan, out |-> out]

\* The record of a call `name` with outcome res.
CallOf(name, self, rhs, text, to, n, ty, ptr, checked, res) ==
    [name |-> name, self |-> self, rhs |-> rhs, text |-> text, to |-> to,
     n |-> n, ty |-> ty, ptr |-> ptr, checked |-> checked, panic |-> res.panic, scan |-> res.scan,
     out |-> IF "out" \in DOMAIN res THEN res.out ELSE NoOut]

\* The value held after a call with outcome res: a panic returns nothing.
Held(res) == IF res.panic THEN cur ELSE res.val

\* One more call, while the sequence is short of MaxOps.
Step == ops < MaxOps /\ ops' = ops + 1

Init ==
    /\ cur \in {Default(size) : size \in Caps}
    /\ call = CallOf("default", NoValue, NoValue, <<>>, <<>>, cur.cap, "", 0, FALSE,
                     Returned(cur, NoScan))
    /\ ops = 0

\* RocStr::<size>::default()
DoDefault ==
    /\ Step
    /\ \E size \in Caps :
        LET res == Returned(Default(size), NoScan)
        IN  /\ cur' = Held(res)
            /\ call' = CallOf("default", NoValue, NoValue, <<>>, <<>>, size, "", 0, FALSE, res)

\* RocStr::<size>::from(text)
DoFromStr ==
    /\ Step
    /\ \E size \in Caps, text \in Texts :
        LET res == FromStr(size, text)
        IN  /\ cur' = Held(res)
            /\ call' = CallOf("from_str", NoValue, NoValue, text, <<>>, size, "", 0, FALSE, res)

\* The conversions made within sequences of operations, each with its outcome:
\* a conversion depends on nothing but its argument and the build.
IntConversions ==
    UNION {{[ty |-> ty, ptr |-> ptr, checked |-> checked, value |-> value,
             res |-> FromInt(ty, ptr, value, checked)] :
               checked \in BOOLEAN, value \in IntInputs(ty, ptr)} :
           ty \in IntTypes, ptr \in PointerWidths}

\* RocStr::from(value) of an integer type, built with or without overflow checks
DoFromInt ==
    /\ Step
    /\ \E c \in IntConversions :
        /\ cur' = Held(c.res)
        /\ call' = CallOf("from_int", NoValue, NoValue, <<>>, <<>>, c.value, c.ty,
                          c.ptr, c.checked, c.res)

\* cur + text
DoAddStr ==
    /\ Step
    /\ \E text \in Texts :
        LET res == AddStr(cur, text)
        IN  /\ cur' = Held(res)
            /\ call' = CallOf("add_str", cur, NoValue, text, <<>>, 0, "", 0, FALSE, res)

\* The right operands of value + value: the values built from a text at any
\* capacity (zero filler), and the same values as truncate returns them (space
\* filler).
RhsValues ==
    LET built == {FromStr(size, text).val : size \in Caps, text \in Texts}
    IN  built \cup {Truncate(v, v.len).val : v \in built}

\* cur + rhs, rhs another value or cur itself (RocStr is Copy)
DoAddRoc ==
    /\ Step
    /\ \E rhs \in RhsValues \cup {cur} :
        LET res == AddRoc(cur, rhs)
        IN  /\ cur' = Held(res)
            /\ call' = CallOf("add_roc", cur, rhs, <<>>, <<>>, 0, "", 0, FALSE, res)

\* cur.reshape::<newcap>()
DoReshape ==
    /\ Step
    /\ \E newcap \in Caps :
        LET res == Reshape(cur, newcap)
        IN  /\ cur' = Held(res)
            /\ call' = CallOf("reshape", cur, NoValue, <<>>, <<>>, newcap, "", 0, FALSE, res)

\* cur.truncate(n)
DoTruncate ==
    /\ Step
    /\ \E n \in 0..(MaxCap + 1) :
        LET res == Truncate(cur, n)
        IN  /\ cur' = Held(res)
            /\ call' = CallOf("truncate", cur, NoValue, <<>>, <<>>, n, "", 0, FALSE, res)

\* cur.replace(from, to).  The build's overflow checks decide the outcome only
\* where `self.len - from.len()` overflows: both builds are tried there.
DoReplace ==
    /\ Step
    /\ \E from \in Texts, to \in Replacements :
      \E checked \in (IF Len(from) > cur.len THEN BOOLEAN ELSE {TRUE}) :
        LET res == Replace(cur, from, to, checked)
        IN  /\ cur' = Held(res)
            /\ call' = CallOf("replace", cur, NoValue, from, to, 0, "", 0, checked, res)

\* Every operation but replace.
NextCore ==
    \/ DoDefault
    \/ DoFromStr
    \/ DoFromInt
    \/ DoAddStr
    \/ DoAddRoc
    \/ DoReshape
    \/ DoTruncate

Next ==
    \/ NextCore
    \/ DoReplace

Spec == Init /\ [][Next]_vars

SpecCore == Init /\ [][NextCore]_vars

\* ------------------------------------------------- replace at larger capacities
\* ASCII texts: haystacks and patterns are made of 'a' and 'b', replacements
\* of 'c'.
RECURSIVE AsciiTextsOfLen(_)
AsciiTextsOfLen(n) ==
    IF n = 0 THEN {<<>>}
    ELSE {<<c>> \o t : c \in {97, 98}, t \in AsciiTextsOfLen(n - 1)}

HaystackTexts == UNION {AsciiTextsOfLen(n) : n \in 0..MaxHayCap}

Patterns == UNION {AsciiTextsOfLen(n) : n \in 0..MaxPatternLen}

ReplacementsOfC == {Fill(99, n) : n \in 0..MaxToLen}

\* RocStr::<size>::from(text), the haystack, of a text that fits.
InitReplace ==
    \E size \in 0..MaxHayCap, text \in HaystackTexts :
        /\ Len(text) <= size
        /\ cur = FromStr(size, text).val
        /\ call = CallOf("from_str", NoValue, NoValue, text, <<>>, size, "", 0, FALSE,
                         FromStr(size, text))
        /\ ops = 0

\* cur.replace(from, to), once, on a haystack as built.
DoReplaceOnce ==
    /\ ops = 0
    /\ ops' = 1
    /\ \E from \in Patterns, to \in ReplacementsOfC :
      \E checked \in (IF Len(from) > cur.len THEN BOOLEAN ELSE {TRUE}) :
        LET res == Replace(cur, from, to, checked)
        IN  /\ cur' = Held(res)
            /\ call' = CallOf("replace", cur, NoValue, from, to, 0, "", 0, checked, res)

SpecReplace == InitReplace /\ [][DoReplaceOnce]_vars

\* ------------------------------------------------- the integer conversions alone
RECURSIVE MagPowersOfTen(_)
\* <<10^0, 10^1, ..., 10^k>>, for k up to 38 (10^39 is above 2^128)
MagPowersOfTen(k) ==
    IF k = 0 THEN <<MagOfNat(1)>>
    ELSE LET below == MagPowersOfTen(k - 1)
         IN  Append(below, MagMul(below[k], 10))

\* The values converted of a type: the small integers, and those near a power
\* of ten (where the number of digits changes) and near the type's MIN and MAX.
WideIntInputs(ty, ptr) ==
    LET deltas == {MagOfNat(d) : d \in 0..IntSpan}
        small == {IntOf(n) : n \in -MaxSmallInt..MaxSmallInt}
        tenTo == MagPowersOfTen(TypeCap("u128") - 1)
        mags == UNION {{MagAdd(tenTo[k + 1], d), MagSub(tenTo[k + 1], d)} :
                          k \in 1..(TypeCap("u128") - 1), d \in deltas}
        tens == {IntOfMag(neg, m) : neg \in BOOLEAN, m \in mags}
        ends == {IntOfMag(FALSE, MagSub(TypeMax(ty, ptr).mag, d)) : d \in deltas}
                \cup {IntOfMag(TRUE, MagSub(TypeMin(ty, ptr).mag, d)) :
                         d \in IF TypeSigned(ty) THEN deltas ELSE {}}
    IN  {v \in small \cup tens \cup ends : InType(ty, ptr, v)}

\* RocStr::from(value) of any integer type, on a target of either pointer
\* width, built with or without overflow checks
DoConvert ==
    /\ ops = 0
    /\ ops' = 1
    /\ \E ty \in AllIntTypes, ptr \in PointerWidths, checked \in BOOLEAN :
        \E value \in WideIntInputs(ty, ptr) :
            LET res == FromInt(ty, ptr, value, checked)
            IN  /\ cur' = Held(res)
                /\ call' = CallOf("from_int", NoValue, NoValue, <<>>, <<>>, value, ty,
                                  ptr, checked, res)

SpecInt == Init /\ [][DoConvert]_vars

\* ------------------------------------------- observations and the error value
\* The calls that build the values observed: from(text) at any capacity (zero
\* filler), then possibly truncate(capacity), which keeps the content (space
\* filler), or a replace of a single code point that returns.
BuiltCalls ==
    {[cur |-> FromStr(size, text).val,
      call |-> CallOf("from_str", NoValue, NoValue, text, <<>>, size, "", 0, FALSE,
                      FromStr(size, text))] : size \in Caps, text \in Texts}

TruncatedCalls ==
    {[cur |-> Truncate(b.cur, b.cur.cap).val,
      call |-> CallOf("truncate", b.cur, NoValue, <<>>, <<>>, b.cur.cap, "", 0, FALSE,
                      Truncate(b.cur, b.cur.cap))] : b \in BuiltCalls}

ReplacedCalls ==
    LET tried == {[self |-> b.cur, from |-> from, to |-> to,
                   res |-> Replace(b.cur, from, to, TRUE)] :
                     b \in BuiltCalls, from \in Chars, to \in Replacements}
    IN  {[cur |-> t.res.val,
          call |-> CallOf("replace", t.self, NoValue, t.from, t.to, 0, "", 0, TRUE, t.res)] :
            t \in {u \in tried : ~u.res.panic}}

ObservedCalls == BuiltCalls \cup TruncatedCalls \cup ReplacedCalls

\* A value as one of these calls returned it, one call before the end of the
\* sequence.
InitObserve ==
    /\ \E b \in ObservedCalls :
        /\ cur = b.cur
        /\ call = b.call
    /\ ops = MaxOps - 1

\* cur == text, cur == String::from(text)
DoEqStr ==
    /\ Step
    /\ cur' = cur
    /\ \E text \in Texts :
        call' = CallOf("eq_str", cur, NoValue, text, <<>>, 0, "", 0, FALSE,
                       Observed(FALSE, EqStr(cur, text)))

\* text == cur
DoStrEq ==
    /\ Step
    /\ cur' = cur
    /\ \E text \in Texts :
        call' = CallOf("str_eq", cur, NoValue, text, <<>>, 0, "", 0, FALSE,
                       Observed(FALSE, StrEq(text, cur)))

\* cur == rhs, rhs of any capacity
DoEqRoc ==
    /\ Step
    /\ cur' = cur
    /\ \E rhs \in RhsValues \cup {cur} :
        call' = CallOf("eq_roc", cur, rhs, <<>>, <<>>, 0, "", 0, FALSE,
                       Observed(FALSE, EqRoc(cur, rhs)))

\* cur.hash(&mut hasher) on a fresh hasher
DoHash ==
    /\ Step
    /\ cur' = cur
    /\ call' = CallOf("hash", cur, NoValue, <<>>, <<>>, 0, "", 0, FALSE,
                      Observed(FALSE, Hash(cur)))

\* cur.as_bytes()
DoAsBytes ==
    /\ Step
    /\ cur' = cur
    /\ call' = CallOf("as_bytes", cur, NoValue, <<>>, <<>>, 0, "", 0, FALSE,
                      Observed(FALSE, AsBytes(cur)))

\* cur.as_str()
DoAsStr ==
    /\ Step
    /\ cur' = cur
    /\ call' = CallOf("as_str", cur, NoValue, <<>>, <<>>, 0, "", 0, FALSE,
                      Observed(AsStr(cur).panic, AsStr(cur).str))

\* format!("{}", cur)
DoDisplay ==
    /\ Step
    /\ cur' = cur
    /\ call' = CallOf("display", cur, NoValue, <<>>, <<>>, 0, "", 0, FALSE,
                      Observed(Display(cur).panic, Display(cur).str))

\* cur.starts_with(text)
DoStartsWith ==
    /\ Step
    /\ cur' = cur
    /\ \E text \in Texts :
        call' = CallOf("starts_with", cur, NoValue, text, <<>>, 0, "", 0, FALSE,
                       Observed(FALSE, StartsWith(cur, text)))

\* InsufficientCapacity::<size>::from(text)
DoErrFromStr ==
    /\ Step
    /\ cur' = cur
    /\ \E size \in Caps, text \in Texts :
        call' = CallOf("err_from_str", NoValue, NoValue, text, <<>>, size, "", 0, FALSE,
                       Observed(ErrFromStr(size, text).panic, ErrFromStr(size, text).err))

\* InsufficientCapacity::from(cur)
DoErrFromRoc ==
    /\ Step
    /\ cur' = cur
    /\ call' = CallOf("err_from_roc", cur, NoValue, <<>>, <<>>, cur.cap, "", 0, FALSE,
                      Observed(ErrFromRoc(cur).panic, ErrFromRoc(cur).err))

\* InsufficientCapacity::default()
DoErrDefault ==
    /\ Step
    /\ cur' = cur
    /\ call' = CallOf("err_default", NoValue, NoValue, <<>>, <<>>, DefaultErrorCap, "", 0,
                      FALSE, Observed(ErrDefault.panic, ErrDefault.err))

\* The last call made an error value.
MadeError == call.name \in {"err_from_str", "err_from_roc", "err_default"} /\ ~call.panic

\* format!("{}", e) of the error e just made; the call record keeps the message
\* e holds as `self`.  ops counts the calls on bounded strings.
DoErrDisplay ==
    /\ MadeError
    /\ UNCHANGED <<cur, ops>>
    /\ call' = CallOf("err_display", call.out[1], NoValue, <<>>, <<>>, 0, "", 0, FALSE,
                      Observed(ErrDisplay(call.out).panic, ErrDisplay(call.out).str))

NextObserve ==
    \/ DoEqStr
    \/ DoStrEq
    \/ DoEqRoc
    \/ DoHash
    \/ DoAsBytes
    \/ DoAsStr
    \/ DoDisplay
    \/ DoStartsWith
    \/ DoErrFromStr
    \/ DoErrFromRoc
    \/ DoErrDefault
    \/ DoErrDisplay
    \/ DoAddStr
    \/ DoAddRoc
    \/ DoReshape
    \/ DoTruncate
    \/ DoReplace

SpecObserve == InitObserve /\ [][NextObserve]_vars

\* ------------------------------------------------------- reference notions
IsPrefix(p, q) == Len(p) <= Len(q) /\ SubSeq(q, 1, Len(p)) = p

\* The longest prefix of b of at most k bytes that ends on a code-point
\* boundary of the UTF-8 text b: the longest such prefix that is itself UTF-8.
LongestBoundaryPrefix(b, k) ==
    LET top == IF k < Len(b) THEN k ELSE Len(b)
        ok == {n \in 0..top : IsValidUtf8(SubSeq(b, 1, n))}
        best == CHOOSE n \in ok : \A m \in ok : m <= n
    IN  SubSeq(b, 1, best)

\* The index (Rust's) of the nearest non-continuation byte before index k.
NearestLeadBefore(b, k) ==
    LET leads == {i \in 0..(k - 1) : ~IsContinuation(b[i + 1])}
    IN  CHOOSE i \in leads : \A j \in leads : j <= i

\* The byte length of the first code point of a non-empty UTF-8 text b.
FirstCodePointLen(b) ==
    CHOOSE n \in 1..Len(b) :
        /\ IsValidUtf8(SubSeq(b, 1, n))
        /\ \A m \in 1..(n - 1) : ~IsValidUtf8(SubSeq(b, 1, m))

RECURSIVE ReplaceAllFrom(_, _, _, _)
\* Left-to-right replace-all of the non-empty pattern in hay from the 1-based
\* position i: every non-overlapping match, first to last, gives way to `to`.
ReplaceAllFrom(hay, pattern, to, i) ==
    IF i > Len(hay) THEN <<>>
    ELSE IF i + Len(pattern) - 1 <= Len(hay) /\ SubSeq(hay, i, i + Len(pattern) - 1) = pattern
         THEN to \o ReplaceAllFrom(hay, pattern, to, i + Len(pattern))
    ELSE <<hay[i]>> \o ReplaceAllFrom(hay, pattern, to, i + 1)

ReplaceAll(hay, pattern, to) == ReplaceAllFrom(hay, pattern, to, 1)

\* The last call was a concatenation / one of the truncating operations.
IsAdd == call.name \in {"add_str", "add_roc"}
IsTruncating == call.name \in {"from_str", "add_str", "add_roc", "reshape", "truncate"}

\* The right operand's content of the last concatenation.
AddRight == IF call.name = "add_str" THEN call.text ELSE AsBytes(call.rhs)

\* The operands of the last call are UTF-8.
ValidOperands ==
    /\ IsValidUtf8(AsBytes(call.self))
    /\ IsValidUtf8(AsBytes(call.rhs))
    /\ IsValidUtf8(call.text)
    /\ IsValidUtf8(call.to)

\* ------------------------------------------------------------------ claims
\* C1 (invariant I1 over sequences): every value reached by a sequence of
\* construct-from-text, default, integer conversion, value + text,
\* value + value, reshape and truncate has live bytes inner[..len] that are
\* valid UTF-8.  Checked under SpecCore.
C1_ValidityOverSequences ==
    /\ IsValidUtf8(AsBytes(cur))
    /\ ~AsStr(cur).panic

\* C1 witness: a truncate, at least two calls into a sequence, whose limit fell
\* inside a multi-byte code point and which returned the shorter prefix.
C1_Witness ==
    /\ call.name = "truncate"
    /\ ops >= 2
    /\ ~call.panic
    /\ call.n < call.self.len
    /\ IsContinuation(call.self.inner[call.n + 1])
    /\ cur.len < call.n

\* C2 (invariant I2 over sequences): every value reached by a sequence of the
\* public operations, replace included, has 0 <= len <= capacity (and an
\* array of exactly capacity bytes).
C2_BoundOverSequences ==
    /\ cur.len >= 0
    /\ cur.len <= cur.cap
    /\ Len(cur.inner) = cur.cap

\* C2 witness: a replace whose untruncated result is longer than the capacity
\* returned a value filled to capacity.
C2_Witness ==
    /\ call.name = "replace"
    /\ ~call.panic
    /\ call.text # <<>>
    /\ Len(ReplaceAll(AsBytes(call.self), call.text, call.to)) > cur.cap
    /\ cur.len = cur.cap
    /\ cur.cap > 0

\* C3 (concatenation result): a + r is a value of a's capacity N whose live
\* bytes are a's live bytes followed by the longest boundary-aligned prefix of
\* r of at most N - la bytes (r whole when la + |r| <= N), and whose length is
\* la plus that prefix's length.  The code panics where the prefix is shorter
\* than N - la.
C3_ConcatResult ==
    (IsAdd /\ ValidOperands) =>
        LET a == call.self
            prefix == LongestBoundaryPrefix(AddRight, a.cap - a.len)
        IN  /\ ~call.panic
            /\ cur.cap = a.cap
            /\ AsBytes(cur) = AsBytes(a) \o prefix
            /\ cur.len = a.len + Len(prefix)

\* C4 (no truncating operation panics): construct-from-text, value + text,
\* value + value, reshape and truncate return a value for every UTF-8 input,
\* also when the cut falls on a continuation byte.  Both add panic there.
C4_TruncationNeverPanics ==
    (IsTruncating /\ ValidOperands) => ~call.panic

\* C5 (concatenation capacity bound): for every right operand, a + right is a
\* value of length at most a's capacity whose live bytes are valid UTF-8.  The
\* code returns no value where C4 fails.
C5_ConcatBound ==
    (IsAdd /\ ValidOperands) =>
        /\ ~call.panic
        /\ cur.len <= call.self.cap
        /\ IsValidUtf8(AsBytes(cur))

\* C6 (boundary scanner result): for UTF-8 bytes b and a limit k,
\* extract_utf8_within(b, k) is b when k >= |b|, and otherwise the longest
\* prefix of b of at most k bytes ending on a code-point boundary: of length k
\* when b[k] is no continuation byte, else of the length given by the index of
\* the nearest non-continuation byte before k.
C6_ScannerResult ==
    (call.scan.called /\ IsValidUtf8(call.scan.bytes)) =>
        LET b == call.scan.bytes
            k == call.scan.limit
            out == call.scan.slice
        IN  /\ ~call.scan.panic
            /\ k >= Len(b) => out = b
            /\ k < Len(b) =>
                /\ out = LongestBoundaryPrefix(b, k)
                /\ Len(out) = IF ~IsContinuation(b[k + 1]) THEN k
                              ELSE NearestLeadBefore(b, k)

\* C6 witness: the limit fell on the last byte of a 3-byte code point and the
\* scanner walked two bytes back.
C6_Witness ==
    /\ call.scan.called
    /\ call.scan.limit < Len(call.scan.bytes)
    /\ IsContinuation(call.scan.bytes[call.scan.limit + 1])
    /\ ~call.scan.panic
    /\ Len(call.scan.slice) = call.scan.limit - 2

\* C7 as stated (boundary scanner guarantee): the result is valid UTF-8 and is
\* never empty unless k = 0 or b is empty.
C7_ScannerNeverEmptyAsStated ==
    (call.scan.called /\ IsValidUtf8(call.scan.bytes)) =>
        /\ IsValidUtf8(call.scan.slice)
        /\ call.scan.slice = <<>> => (call.scan.limit = 0 \/ call.scan.bytes = <<>>)

\* C7 amended: the result is valid UTF-8, and it is empty exactly when k = 0,
\* b is empty, or k is less than the byte length of b's first code point.
C7_ScannerGuarantee ==
    (call.scan.called /\ IsValidUtf8(call.scan.bytes)) =>
        LET b == call.scan.bytes
            k == call.scan.limit
        IN  /\ ~call.scan.panic
            /\ IsValidUtf8(call.scan.slice)
            /\ call.scan.slice = <<>> <=> (k = 0 \/ b = <<>> \/ k < FirstCodePointLen(b))

\* C7 witness: a positive limit, shorter than the first code point of a
\* non-empty text, gave the empty prefix.
C7_Witness ==
    /\ call.scan.called
    /\ call.scan.limit > 0
    /\ call.scan.bytes # <<>>
    /\ ~call.scan.panic
    /\ call.scan.slice = <<>>

\* C8 (round-trip of construction): for a text t of at most N bytes, the text
\* view and the byte view of RocStr::<N>::from(t) are t, and its length is |t|.
C8_ConstructionRoundTrip ==
    (call.name = "from_str" /\ Len(call.text) <= call.n) =>
        /\ ~call.panic
        /\ AsStr(cur) = [panic |-> FALSE, str |-> call.text]
        /\ AsBytes(cur) = call.text
        /\ cur.len = Len(call.text)
        /\ cur.cap = call.n

\* C8 witness: a text ending in a multi-byte code point that fills the
\* capacity exactly.
C8_Witness ==
    /\ call.name = "from_str"
    /\ ~call.panic
    /\ call.n > 0
    /\ Len(call.text) = call.n
    /\ IsContinuation(call.text[call.n])

\* C9 (truncating construction): for every text t and capacity N, N = 0
\* included, RocStr::<N>::from(t) returns the value holding
\* extract_utf8_within(t, N): valid UTF-8, of length at most N, a prefix of t.
C9_TruncatingConstruction ==
    call.name = "from_str" =>
        /\ ~call.panic
        /\ cur.cap = call.n
        /\ AsBytes(cur) = ExtractUtf8Within(call.text, call.n).slice
        /\ AsBytes(cur) = LongestBoundaryPrefix(call.text, call.n)
        /\ IsValidUtf8(AsBytes(cur))
        /\ cur.len <= call.n
        /\ IsPrefix(AsBytes(cur), call.text)

\* C9 witness: the capacity fell inside a multi-byte code point of a longer
\* text, and the value holds less than its capacity.
C9_Witness ==
    /\ call.name = "from_str"
    /\ ~call.panic
    /\ call.n < Len(call.text)
    /\ IsContinuation(call.text[call.n + 1])
    /\ cur.len < call.n

\* C10 (replace-all when the result fits): for a non-empty pattern, when the
\* untruncated result has at most N bytes, replace returns the haystack with
\* every non-overlapping match, first to last, replaced and every other byte
\* kept in order.  The code drops the bytes after a match that ends fewer than
\* |pattern| - 1 bytes before the end, and panics on a pattern longer than the
\* haystack.
C10_ReplaceAllWhenFits ==
    (/\ call.name = "replace"
     /\ call.text # <<>>
     /\ ValidOperands
     /\ Len(ReplaceAll(AsBytes(call.self), call.text, call.to)) <= call.self.cap) =>
        /\ ~call.panic
        /\ AsBytes(cur) = ReplaceAll(AsBytes(call.self), call.text, call.to)

\* The pattern p occurs in the bytes h.
Occurs(p, h) == \E i \in 1..(Len(h) - Len(p) + 1) : SubSeq(h, i, i + Len(p) - 1) = p

\* C11 (replace with a non-matching pattern): for every haystack and every
\* non-empty pattern that does not occur in it, a pattern longer than the
\* haystack and an empty haystack included, replace returns a value equal to
\* the haystack.  The code panics on a pattern longer than the haystack.
C11_ReplaceNoMatch ==
    (/\ call.name = "replace"
     /\ call.text # <<>>
     /\ ValidOperands
     /\ ~Occurs(call.text, AsBytes(call.self))) =>
        /\ ~call.panic
        /\ cur.cap = call.self.cap
        /\ cur.len = call.self.len
        /\ AsBytes(cur) = AsBytes(call.self)

\* C12 (replace overflow): for a non-empty pattern, when the untruncated
\* replace-all result is longer than the capacity N, replace returns a value of
\* length exactly N holding the first N bytes of that result.  The code drops
\* the bytes after a late match, as in C10, and then stops short of N.
C12_ReplaceOverflow ==
    (/\ call.name = "replace"
     /\ call.text # <<>>
     /\ ValidOperands
     /\ Len(ReplaceAll(AsBytes(call.self), call.text, call.to)) > call.self.cap) =>
        /\ ~call.panic
        /\ cur.cap = call.self.cap
        /\ cur.len = call.self.cap
        /\ AsBytes(cur) = SubSeq(ReplaceAll(AsBytes(call.self), call.text, call.to),
                                 1, call.self.cap)

\* C13 (replace with an empty pattern is the identity): for every haystack and
\* every replacement, replace(haystack, "", replacement) returns the haystack:
\* same length, same bytes.
C13_ReplaceEmptyPattern ==
    (call.name = "replace" /\ call.text = <<>>) =>
        /\ ~call.panic
        /\ cur = call.self
        /\ cur.len = call.self.len
        /\ AsBytes(cur) = AsBytes(call.self)

\* C13 witness: a non-empty haystack came back from a replace with an empty
\* pattern and a non-empty replacement.
C13_Witness ==
    /\ call.name = "replace"
    /\ call.text = <<>>
    /\ call.to # <<>>
    /\ ~call.panic
    /\ call.self.len > 0
    /\ cur = call.self

\* C14 (truncate): for every value s of capacity N and every byte length L,
\* s.truncate(L) is a value of capacity N whose live content is
\* extract_utf8_within(live bytes of s, L): at most L bytes, a prefix of s,
\* equal to s when L >= length, and valid UTF-8, the longest boundary-aligned
\* prefix, when s is; s, taken by reference, is the same value afterwards.
C14_Truncate ==
    call.name = "truncate" =>
        LET s == call.self
            L == call.n
        IN  /\ ~call.panic
            /\ cur.cap = s.cap
            /\ AsBytes(cur) = ExtractUtf8Within(AsBytes(s), L).slice
            /\ cur.len <= L
            /\ IsPrefix(AsBytes(cur), AsBytes(s))
            /\ L >= s.len => AsBytes(cur) = AsBytes(s)
            /\ IsValidUtf8(AsBytes(s)) =>
                /\ IsValidUtf8(AsBytes(cur))
                /\ AsBytes(cur) = LongestBoundaryPrefix(AsBytes(s), L)
            /\ Truncate(s, L) = Returned(cur, call.scan)

\* C14 witness: a truncate, of a value whose array holds more than its live
\* bytes, at a length inside a multi-byte code point.
C14_Witness ==
    /\ call.name = "truncate"
    /\ ~call.panic
    /\ call.self.len < call.self.cap
    /\ call.n < call.self.len
    /\ IsContinuation(call.self.inner[call.n + 1])
    /\ cur.len < call.n
    /\ cur.len > 0

\* C15 (reshape): for every value s and every target capacity M,
\* s.reshape::<M>() has capacity M and live content
\* extract_utf8_within(live bytes of s, M); it equals s by content whenever
\* length(s) <= M, and otherwise is the longest boundary-aligned prefix of s of
\* at most M bytes.
C15_Reshape ==
    call.name = "reshape" =>
        LET s == call.self
            M == call.n
        IN  /\ ~call.panic
            /\ cur.cap = M
            /\ Len(cur.inner) = M
            /\ AsBytes(cur) = ExtractUtf8Within(AsBytes(s), M).slice
            /\ s.len <= M => AsBytes(cur) = AsBytes(s)
            /\ (s.len > M /\ IsValidUtf8(AsBytes(s))) =>
                AsBytes(cur) = LongestBoundaryPrefix(AsBytes(s), M)

\* C15 witness: a reshape to a smaller capacity that falls inside a
\* multi-byte code point, keeping less than the new capacity.
C15_Witness ==
    /\ call.name = "reshape"
    /\ ~call.panic
    /\ call.n < call.self.len
    /\ call.n < call.self.cap
    /\ IsContinuation(call.self.inner[call.n + 1])
    /\ cur.len < cur.cap

\* C16 (boundary scanner idempotence): for UTF-8 bytes b and a limit k,
\* extract_utf8_within(extract_utf8_within(b, k), k) = extract_utf8_within(b, k).
C16_ScannerIdempotence ==
    (call.scan.called /\ IsValidUtf8(call.scan.bytes)) =>
        /\ ~call.scan.panic
        /\ call.scan.slice = ExtractUtf8Within(call.scan.bytes, call.scan.limit).slice
        /\ ExtractUtf8Within(call.scan.slice, call.scan.limit) =
               [panic |-> FALSE, slice |-> call.scan.slice]

\* C16 witness: the scanner cut bytes longer than the limit to exactly the
\* limit, so that the second scan is of bytes that fit exactly.
C16_Witness ==
    /\ call.scan.called
    /\ ~call.scan.panic
    /\ call.scan.limit > 0
    /\ call.scan.limit < Len(call.scan.bytes)
    /\ Len(call.scan.slice) = call.scan.limit
    /\ IsContinuation(call.scan.slice[call.scan.limit])

RECURSIVE ParseMag(_, _, _)
\* The magnitude written by the decimal digits of text from index i on, after
\* the magnitude acc: not ok on a byte that is no digit and on an overflow of
\* 128 bits.
ParseMag(text, i, acc) ==
    IF i > Len(text) THEN [ok |-> TRUE, mag |-> acc]
    ELSE IF text[i] < 48 \/ text[i] > 57 THEN [ok |-> FALSE, mag |-> acc]
    ELSE LET m == MagMul(acc, 10)
             d == MagOfNat(text[i] - 48)
         IN  IF MulCarry(acc, 10, LimbCount + 1) # 0 \/ AddCarry(m, d, LimbCount + 1) # 0
             THEN [ok |-> FALSE, mag |-> acc]
             ELSE ParseMag(text, i + 1, MagAdd(m, d))

\* text.parse::<ty>(): an optional sign ('-' for the signed types only), then
\* one decimal digit or more, the value within the type.
ParseInt(ty, ptr, text) ==
    LET negative == Len(text) > 0 /\ text[1] = 45 /\ TypeSigned(ty)
        plus == Len(text) > 0 /\ text[1] = 43
        digits == IF negative \/ plus THEN SubSeq(text, 2, Len(text)) ELSE text
        p == ParseMag(digits, 1, MagOfNat(0))
        v == IntOfMag(negative, p.mag)
    IN  IF digits = <<>> \/ ~p.ok \/ ~InType(ty, ptr, v) THEN [ok |-> FALSE, value |-> Zero]
        ELSE [ok |-> TRUE, value |-> v]

\* The text of a '-' and of decimal digits.
MinusSign == <<45>>
DigitsText(digits) == [i \in 1..Len(digits) |-> 48 + digits[i]]

\* The last call converted an integer.
IsFromInt == call.name = "from_int"

\* C17 (numeric round-trip): for every integer v of every supported type, the
\* decimal text the conversion produces parses back to exactly v.  With
\* 32-bit pointers the text of isize::MIN is that of i64::MIN.
C17_NumericRoundTrip ==
    IsFromInt =>
        /\ ~call.panic
        /\ ~AsStr(cur).panic
        /\ ParseInt(call.ty, call.ptr, AsBytes(cur)) = [ok |-> TRUE, value |-> call.n]

\* C18 (signed minimum values): the most-negative values of i8, i16, i32, i64
\* and isize are converted to exactly "-128", "-32768", "-2147483648",
\* "-9223372036854775808" and "-9223372036854775808", each of length equal to
\* its capacity, and each the precomputed constant ROCSTR_MIN_*.
C18_SignedMinimum ==
    (IsFromInt /\ TypeSigned(call.ty) /\ call.n = TypeMin(call.ty, call.ptr)) =>
        /\ ~call.panic
        /\ AsBytes(cur) =
             MinusSign \o DigitsText(
               CASE call.ty = "i8" -> <<1, 2, 8>>
                 [] call.ty = "i16" -> <<3, 2, 7, 6, 8>>
                 [] call.ty = "i32" -> <<2, 1, 4, 7, 4, 8, 3, 6, 4, 8>>
                 [] call.ty = "i64" ->
                      <<9, 2, 2, 3, 3, 7, 2, 0, 3, 6, 8, 5, 4, 7, 7, 5, 8, 0, 8>>
                 [] call.ty = "isize" ->
                      <<9, 2, 2, 3, 3, 7, 2, 0, 3, 6, 8, 5, 4, 7, 7, 5, 8, 0, 8>>)
        /\ cur.len = cur.cap
        /\ cur.cap = TypeCap(call.ty)
        /\ cur = RocStrMin(call.ty)

\* C18 witness: i64::MIN converted, in a build with overflow checks, to a
\* text of 20 bytes.
C18_Witness ==
    /\ IsFromInt
    /\ call.ty = "i64"
    /\ call.n = TypeMin("i64", call.ptr)
    /\ call.checked
    /\ ~call.panic
    /\ cur.len = 20

\* The longest value of a type: MIN, with its sign, for the signed types, and
\* MAX for the unsigned ones.
LongestValue(ty, ptr) == IF TypeSigned(ty) THEN TypeMin(ty, ptr) ELSE TypeMax(ty, ptr)

C20_CanonicalDecimal ==
    IsFromInt =>
        LET v == call.n
            t == AsBytes(cur)
            digits == IF v.neg THEN SubSeq(t, 2, Len(t)) ELSE t
        IN  /\ ~call.panic
            /\ v = Zero => (t = <<48>> /\ cur.len = 1)
            /\ v # Zero =>
                /\ v.neg => (Len(t) >= 1 /\ t[1] = 45)
                /\ digits # <<>>
                /\ \A i \in 1..Len(digits) : digits[i] >= 48 /\ digits[i] <= 57
                /\ digits[1] # 48
                /\ ParseMag(digits, 1, MagOfNat(0)) = [ok |-> TRUE, mag |-> v.mag]

RECURSIVE LastMatchEndFrom(_, _, _, _)
\* The number of bytes of hay up to the end of the last non-overlapping match
\* of the non-empty pattern, scanning left to right from the 1-based position
\* i; `last` when no further match is found.
LastMatchEndFrom(hay, pattern, i, last) ==
    IF i + Len(pattern) - 1 > Len(hay) THEN last
    ELSE IF SubSeq(hay, i, i + Len(pattern) - 1) = pattern
         THEN LastMatchEndFrom(hay, pattern, i + Len(pattern), i + Len(pattern) - 1)
    ELSE LastMatchEndFrom(hay, pattern, i + 1, last)

LastMatchEnd(hay, pattern) == LastMatchEndFrom(hay, pattern, 1, 0)

\* C24 (replace keeps the tail): for a non-empty pattern, the bytes of the
\* haystack after the last match (all of them when nothing matched) follow the
\* replaced part in the value replace returns, as many of them as the capacity has room for,
\* wherever the last match ends.  The code appends them only when the last
\* match ends at the end of the haystack or at least |pattern| - 1 bytes
\* before it.
C24_ReplaceKeepsTail ==
    (/\ call.name = "replace"
     /\ call.text # <<>>
     /\ ValidOperands
     /\ ~call.panic) =>
        LET hay == AsBytes(call.self)
            end == LastMatchEnd(hay, call.text)
            head == ReplaceAll(SubSeq(hay, 1, end), call.text, call.to)
            tail == SubSeq(hay, end + 1, Len(hay))
            room == call.self.cap - Len(head)
            keep == IF Len(tail) < room THEN Len(tail) ELSE room
        IN  Len(head) <= call.self.cap =>
                /\ cur.len >= Len(head) + keep
                /\ SubSeq(AsBytes(cur), Len(head) + 1, Len(head) + keep) = SubSeq(tail, 1, keep)

\* C25 (replace preserves validity): for every haystack and every pattern and
\* replacement that are UTF-8, the live bytes of the value replace returns are
\* UTF-8, so that its text view is defined.  The code cuts the replacement, a
\* passed-through code point or the tail at the capacity without looking for a
\* code-point boundary.
C25_ReplacePreservesValidity ==
    (/\ call.name = "replace"
     /\ ValidOperands
     /\ ~call.panic) =>
        /\ IsValidUtf8(AsBytes(cur))
        /\ ~AsStr(cur).panic

RECURSIVE DigitStepsInRange(_, _, _)
\* Every step of the digit loop on `value` of the type ty stays within the
\* type: the quotient, the product and the difference of next_char are values
\* of ty, the difference is a digit, and the value left is smaller.
DigitStepsInRange(ty, ptr, value) ==
    IF ~IsPositive(value) THEN TRUE
    ELSE LET next == IntDiv(value, Ten)
             mask == IntMul(next, Ten)
             rest == IntSub(value, mask)
             nc == NextChar(value)
         IN  /\ InType(ty, ptr, next)
             /\ InType(ty, ptr, mask)
             /\ InType(ty, ptr, rest)
             /\ ~rest.neg
             /\ rest.mag = MagOfNat(AsDigit(rest))
             /\ AsDigit(rest) \in 0..9
             /\ ~nc.panic
             /\ nc.char = 48 + AsDigit(rest)
             /\ nc.next = next
             /\ MagLess(next.mag, value.mag)
             /\ DigitStepsInRange(ty, ptr, next)

\* C29 (no arithmetic overflow in integer conversion): for every value of every
\* integer type, on either pointer width and with or without overflow checks,
\* the conversion does not panic; the type's MIN does not enter the signed
\* path (the result is the stored constant), so that the negation there is of
\* a value whose opposite is a positive value of the type; and in every step
\* of the digit loop value / 10, (value / 10) * 10 and their difference from
\* value are values of the type, the difference is a digit 0..9, and the value
\* decreases, so the loop ends.
C29_NoArithmeticOverflow ==
    IsFromInt =>
        LET ty == call.ty
            ptr == call.ptr
            v == call.n
            abs == Negate(ty, ptr, v, TRUE)
        IN  /\ ~call.panic
            /\ InType(ty, ptr, Ten)
            /\ (TypeSigned(ty) /\ v = TypeMin(ty, ptr)) => cur = RocStrMin(ty)
            /\ (TypeSigned(ty) /\ v.neg /\ v # TypeMin(ty, ptr)) =>
                /\ ~abs.panic
                /\ IsPositive(abs.value)
                /\ InType(ty, ptr, abs.value)
                /\ DigitStepsInRange(ty, ptr, abs.value)
                /\ cur.len >= 2
            /\ ~v.neg => DigitStepsInRange(ty, ptr, v)

\* A build with overflow checks converts i64::MIN + 1, whose opposite is
\* i64::MAX, through the signed path to the 20 bytes "-9223372036854775807".
C29_Witness ==
    /\ IsFromInt
    /\ call.ty = "i64"
    /\ call.n = IntOfMag(TRUE, MagSub(TypeMin("i64", call.ptr).mag, MagOfNat(1)))
    /\ call.checked
    /\ ~call.panic
    /\ cur.len = 20
    /\ AsBytes(cur) = MinusSign \o DigitsText(<<9, 2, 2, 3, 3, 7, 2, 0, 3, 6, 8, 5, 4, 7, 7, 5, 8, 0, 7>>)

\* Two byte sequences are the same content: equal lengths and equal bytes.
SameContent(a, b) == Len(a) = Len(b) /\ \A i \in 1..Len(a) : a[i] = b[i]

\* C21 (content equality): a bounded string equals a text, and two bounded
\* strings of any capacities are equal, if and only if their lengths are equal
\* and their live bytes are the same; the capacities and the bytes after the
\* live ones play no part, and both operand orders give the same answer.
C21_ContentEquality ==
    /\ call.name = "eq_str" =>
        /\ call.out = SameContent(AsBytes(call.self), call.text)
        /\ call.out = StrEq(call.text, call.self)
    /\ call.name = "str_eq" =>
        /\ call.out = SameContent(call.text, AsBytes(call.self))
        /\ call.out = EqStr(call.self, call.text)
    /\ call.name = "eq_roc" =>
        /\ call.out = SameContent(AsBytes(call.self), AsBytes(call.rhs))
        /\ call.out = EqRoc(call.rhs, call.self)

\* Two values of different capacities and different fillers, holding the same
\* non-empty content, compared equal.
C21_Witness ==
    /\ call.name = "eq_roc"
    /\ call.out = TRUE
    /\ call.self.len > 0
    /\ call.self.cap # call.rhs.cap
    /\ call.self.cap > call.self.len
    /\ call.rhs.cap > call.rhs.len
    /\ call.self.inner[call.self.cap] # call.rhs.inner[call.rhs.cap]

\* C22 (hash and equality cohere): whenever two bounded strings are equal, of
\* whatever capacities, hashing feeds the same byte stream to the hasher for
\* both.
C22_HashEqualityCoherence ==
    /\ call.name = "hash" =>
        \A b \in RhsValues : EqRoc(call.self, b) => Hash(b) = call.out
    /\ (call.name = "eq_roc" /\ call.out = TRUE) => Hash(call.self) = Hash(call.rhs)

\* A value was hashed that equals a value of another capacity and other filler.
C22_Witness ==
    /\ call.name = "hash"
    /\ call.self.len > 0
    /\ \E b \in RhsValues :
        /\ EqRoc(call.self, b)
        /\ b.cap # call.self.cap
        /\ b.cap > b.len
        /\ call.self.cap > call.self.len
        /\ b.inner[b.cap] # call.self.inner[call.self.cap]

\* impl Hash for str, on a fresh hasher: the bytes of the text, then 0xFF.
HashStr(text) == HasherWriteU8(HasherWrite(<<>>, text), 255)

\* C26 (hash stream): hashing a bounded string feeds the hasher its live bytes
\* and then the single byte 0xFF, the stream an equal text slice feeds; no live
\* byte is 0xFF, so for two values of different content neither stream is a
\* prefix of the other.
C26_HashStream ==
    call.name = "hash" =>
        /\ call.out = AsBytes(call.self) \o <<255>>
        /\ \A text \in Texts : EqStr(call.self, text) => call.out = HashStr(text)
        /\ \A i \in 1..call.self.len : call.self.inner[i] # 255
        /\ \A b \in RhsValues :
            AsBytes(b) # AsBytes(call.self) =>
                /\ ~IsPrefix(call.out, Hash(b))
                /\ ~IsPrefix(Hash(b), call.out)

\* A value was hashed whose non-empty content is the beginning of the longer
\* content of another value.
C26_Witness ==
    /\ call.name = "hash"
    /\ call.self.len > 0
    /\ Len(call.out) = call.self.len + 1
    /\ \E b \in RhsValues :
        /\ b.len > call.self.len
        /\ IsPrefix(AsBytes(call.self), AsBytes(b))

\* C23 (insufficient-capacity error value): an error made from a text holds
\* the value from(text) builds at the error's capacity, cut on a code-point
\* boundary when the text is longer; an error made from a bounded string holds
\* that string unchanged; the default error, of capacity 57, holds the whole
\* default message, of length 57; and displaying an error gives exactly the
\* message it holds.  An error made from a value that replace returned with a
\* cut code point (C25) cannot be displayed: the text view panics.
C23_InsufficientCapacityError ==
    /\ call.name = "err_from_str" =>
        /\ ~call.panic
        /\ call.out[1] = FromStr(call.n, call.text).val
        /\ call.out[1].cap = call.n
        /\ AsBytes(call.out[1]) = LongestBoundaryPrefix(call.text, call.n)
    /\ call.name = "err_from_roc" =>
        /\ ~call.panic
        /\ call.out[1] = call.self
    /\ call.name = "err_default" =>
        /\ ~call.panic
        /\ call.out[1].cap = 57
        /\ call.out[1].len = 57
        /\ AsBytes(call.out[1]) = DEFAULT_MESSAGE
    /\ call.name = "err_display" =>
        /\ ~call.panic
        /\ call.out = AsBytes(call.self)

\* The value v with the filler byte f after its live bytes, and the values
\* that differ from v in nothing but the filler.
WithFiller(v, f) == RocStr(v.cap, AsBytes(v) \o Fill(f, v.cap - v.len), v.len)
Twins(v) == {WithFiller(v, f) : f \in {FillZero, FillSpace}}

\* The observations and operations of a value, and those that return a value.
Observations ==
    {"eq_str", "str_eq", "eq_roc", "hash", "as_bytes", "as_str", "display", "starts_with"}
Operations == {"add_str", "add_roc", "reshape", "truncate", "replace"}

\* The call c made again on the receiver self and the right operand rhs.
Redo(c, self, rhs) ==
    CASE c.name = "eq_str" -> Observed(FALSE, EqStr(self, c.text))
      [] c.name = "str_eq" -> Observed(FALSE, StrEq(c.text, self))
      [] c.name = "eq_roc" -> Observed(FALSE, EqRoc(self, rhs))
      [] c.name = "hash" -> Observed(FALSE, Hash(self))
      [] c.name = "as_bytes" -> Observed(FALSE, AsBytes(self))
      [] c.name = "as_str" -> Observed(AsStr(self).panic, AsStr(self).str)
      [] c.name = "display" -> Observed(Display(self).panic, Display(self).str)
      [] c.name = "starts_with" -> Observed(FALSE, StartsWith(self, c.text))
      [] c.name = "add_str" -> AddStr(self, c.text)
      [] c.name = "add_roc" -> AddRoc(self, rhs)
      [] c.name = "reshape" -> Reshape(self, c.n)
      [] c.name = "truncate" -> Truncate(self, c.n)
      [] c.name = "replace" -> Replace(self, c.text, c.to, c.checked)

\* C27 (filler non-interference): whatever observation or operation was made
\* of a value (equality, hash, byte and text views, display, starts_with,
\* concatenation as left or right operand, reshape, truncate, replace), made
\* again of any value of the same capacity, length and live bytes but other
\* filler, and with a right operand that differs in filler alone, it ends the
\* same way: it panics or not alike, gives back the same observation, and
\* returns a value of the same length and live bytes.
C27_FillerNonInterference ==
    call.name \in Observations \cup Operations =>
        \A self \in Twins(call.self), rhs \in Twins(call.rhs) :
            LET res == Redo(call, self, rhs)
            IN  /\ res.panic = call.panic
                /\ ~call.panic =>
                    /\ call.name \in Observations => res.out = call.out
                    /\ call.name \in Operations =>
                        /\ res.val.cap = cur.cap
                        /\ res.val.len = cur.len
                        /\ AsBytes(res.val) = AsBytes(cur)

\* An overflowing value + value returned, where the right operand has space
\* filler after its live bytes and the left operand zero filler: the scan of
\* the right operand's whole array stopped within its live bytes.
C27_Witness ==
    /\ call.name = "add_roc"
    /\ ~call.panic
    /\ call.self.len + call.rhs.len > call.self.cap
    /\ call.rhs.cap > call.rhs.len
    /\ call.rhs.inner[call.rhs.cap] = FillSpace
    /\ call.self.cap > call.self.len
    /\ call.self.inner[call.self.cap] = FillZero
    /\ cur.len > call.self.len
    /\ call.scan.called
    /\ call.scan.bytes = call.rhs.inner

\* C28 (the two concatenation forms agree): for every left value a and every
\* right value r of any capacity, a + r ends as a + r.as_str() does: with the
\* same length and live bytes, whether r fits or not.  When r is a value that
\* replace returned with a cut code point (C25), a + r returns and r.as_str()
\* panics.
C28_ConcatenationFormsAgree ==
    call.name = "add_roc" =>
        LET text == AsStr(call.rhs)
            other == IF text.panic THEN Panicked(NoScan) ELSE AddStr(call.self, text.str)
        IN  /\ other.panic = call.panic
            /\ ~call.panic =>
                /\ other.val.cap = cur.cap
                /\ other.val.len = cur.len
                /\ AsBytes(other.val) = AsBytes(cur)

====
